---------------------------- MODULE Spec2Model ----------------------------
(***************************************************************************)
(* Carbon-credit ledger of the greenconnect web application                *)
(* (src/api/index.py, src/api/openai_service.py,                           *)
(* src/api/satellite_service.py, src/api/db_setup.py).                     *)
(*                                                                         *)
(* The committed MySQL tables are functions from row ids to rows:         *)
(* sequences (row id = index, as AUTO_INCREMENT hands them out) until a    *)
(* DELETE removes rows.  Every HTTP request runs in a request   *)
(* slot with its own connection: statements executed on the connection     *)
(* are buffered in the slot's tx until conn.commit() applies them;         *)
(* conn.close() without a commit discards them (pymysql connects with      *)
(* autocommit off).  DECIMAL(_, 2) columns are integers in hundredths.     *)
(***************************************************************************)
EXTENDS Integers, Sequences, FiniteSets, TLC

VARIABLES
    users,           \* table users: the ids of its rows
    projects,        \* table projects
    assessments,     \* table carbon_assessments
    credits,         \* table carbon_credits
    transactions,    \* table transactions
    satellite_data,  \* table satellite_data
    logs,            \* table ai_verification_logs
    req,             \* request slot -> handler, position and locals
    nreq,            \* number of requests started so far
    aiIn,            \* input of a stand-alone analyze_project call
    aiOut            \* its result

vars == <<users, projects, assessments, credits, transactions, satellite_data, logs,
          req, nreq, aiIn, aiOut>>

(***************************************************************************)
(* Bounds of the model                                                     *)
(***************************************************************************)
\* requests served in one behaviour
MaxRequests == 2
\* distinct values secrets.token_hex(4) can take
NumTokens == 2

Slots == {1, 2}
Users == {1, 2}

\* session['user_id'] of a request: a user, or NoUser when the session has
\* no 'user_id' (is_logged_in, lines 35-36)
NoUser == 0
Sessions == Users \cup {NoUser}
Tokens == 1 .. NumTokens

(***************************************************************************)
(* Arithmetic helpers                                                      *)
(***************************************************************************)
RECURSIVE SumOver(_, _)
SumOver(S, f) ==
    IF S = {} THEN 0
    ELSE LET x == CHOOSE y \in S : TRUE IN f[x] + SumOver(S \ {x}, f)

Max(S) == CHOOSE x \in S : \A y \in S : y <= x

\* Python round(x, 2) of the double nearest to n / d hundredths, d > 0: the
\* nearest hundredth.  When n / d lies exactly between two hundredths the
\* double product lies a rounding error above or below it, and tie_up says
\* which (round(0.01 * 3.5, 2) is 0.04, round(0.03 * 3.5, 2) is 0.1).
RoundDouble(n, d, tie_up) ==
    LET q == n \div d
        r == n % d
    IN  IF 2 * r < d THEN q
        ELSE IF 2 * r > d THEN q + 1
        ELSE IF tie_up THEN q + 1 ELSE q

(***************************************************************************)
(* openai_service.py                                                       *)
(***************************************************************************)
ProjectTypes == {"forestry", "agriculture", "agroforestry", "wetland", "other"}
AreaUnits == {"hectares", "acres"}

\* rates, in tenths of a ton per acre per year
rates(project_type) ==
    CASE project_type = "forestry" -> 35
      [] project_type = "agriculture" -> 12
      [] project_type = "agroforestry" -> 28
      [] project_type = "wetland" -> 48
      [] project_type = "other" -> 10
      [] OTHER -> 10

\* unit_multiplier that takes every area for acres
unit_multiplier_acres(area_unit) == 100

\* unit_multiplier in hundredths: 2.47 for hectares, else 1
unit_multiplier(area_unit) == IF area_unit = "hectares" THEN 247 ELSE 100

\* round(area * unit_multiplier * annual_rate, 2); area_size and the result
\* in hundredths
estimate_fallback(project_data, tie_up) ==
    RoundDouble(project_data.area_size * unit_multiplier(project_data.area_unit)
                    * rates(project_data.project_type), 1000, tie_up)

(***************************************************************************)
(* What the chat completion call can do.  kind "raises": the API call      *)
(* raises or times out.  kind "text": the content is not JSON.  kind       *)
(* "json": the content is a JSON object whose carbon_estimate is           *)
(*   form "absent"   missing,                                              *)
(*   form "tons"     the string "<num> tons CO2e/year",                    *)
(*   form "tonsbad"  a string holding "tons CO2e/year" whose first word    *)
(*                   is not a number ("about 5 tons CO2e/year"),           *)
(*   form "string"   a string without "tons CO2e/year" ("<num>"),          *)
(*   form "number"   the JSON number <num>.                                *)
(* num is in hundredths, conf is the confidence_score of the object.       *)
(***************************************************************************)
EstimateInputs == {0, 200}
ConfInputs == {85}

AIResponses ==
    [kind : {"raises", "text"}, form : {"absent"}, num : {0}, conf : {0}]
    \cup [kind : {"json"}, form : {"absent", "tonsbad"}, num : {0}, conf : ConfInputs]
    \cup [kind : {"json"}, form : {"tons", "string", "number"},
          num : EstimateInputs, conf : ConfInputs]

\* the except branch of analyze_project
FallbackResult(project_data, tie_up) ==
    [carbon_estimate |-> estimate_fallback(project_data, tie_up),
     confidence_score |-> 70,
     model_version |-> "fallback"]

\* does the try block of analyze_project raise on this response?
AnalyzeRaises(resp) ==
    \/ resp.kind = "raises"                \* client.chat.completions.create
    \/ resp.kind = "text"                  \* json.loads
    \/ resp.kind = "json" /\ resp.form = "number"    \* 'tons CO2e/year' in <float>
    \/ resp.kind = "json" /\ resp.form = "tonsbad"   \* float("about")

analyze_project(project_data, resp, tie_up) ==
    IF AnalyzeRaises(resp)
    THEN FallbackResult(project_data, tie_up)
    ELSE [carbon_estimate |->
              IF resp.form = "tons" THEN resp.num ELSE 0,
          confidence_score |-> resp.conf,
          model_version |-> "gpt-4"]

\* generate_assessment_report: the status of the dictionary it returns;
\* ok says whether the chat completion call succeeds.  The except clause
\* catches whatever the try block raises.
generate_assessment_report(ok) ==
    IF ok THEN [status |-> "generated"] ELSE [status |-> "error"]

(***************************************************************************)
(* satellite_service.py: the dictionary fetch_satellite_imagery returns,   *)
(* reduced to its source field; the except branch answers "Simulated data" *)
(***************************************************************************)
fetch_satellite_imagery(ok) ==
    IF ok THEN [source |-> "Sentinel-2"] ELSE [source |-> "Simulated data"]

(***************************************************************************)
(* db_setup.py: the tables after setup_database                            *)
(***************************************************************************)
SeedProjects ==
    << [user_id |-> 1, project_type |-> "forestry", area_size |-> 10000,
        area_unit |-> "hectares", status |-> "registered"],
       [user_id |-> 2, project_type |-> "wetland", area_size |-> 5000,
        area_unit |-> "acres", status |-> "registered"] >>

SeedAssessments ==
    << [project_id |-> 1, carbon_estimate |-> 500000, confidence_score |-> 95,
        ai_model_version |-> "gpt-4", verification_status |-> "approved",
        assessment_date |-> 1],
       [project_id |-> 2, carbon_estimate |-> 300000, confidence_score |-> 90,
        ai_model_version |-> "gpt-4", verification_status |-> "approved",
        assessment_date |-> 1] >>

\* certificate_id <<project_id, token>>; the seeded ids 'CC-1-abc123' and
\* 'CC-2-def456' have six hex digits, token_hex(4) has eight: token 0
SeedCredits ==
    << [project_id |-> 1, assessment_id |-> 1, credit_amount |-> 500000,
        certificate_id |-> <<1, 0>>, status |-> "available",
        price_per_credit |-> 2500],
       [project_id |-> 2, assessment_id |-> 2, credit_amount |-> 300000,
        certificate_id |-> <<2, 0>>, status |-> "available",
        price_per_credit |-> 3000] >>

SeedTransactions ==
    << [credit_id |-> 1, buyer_id |-> 2, seller_id |-> 1, amount |-> 100000,
        price_per_unit |-> 2500, total_price |-> 2500000, status |-> "completed"],
       [credit_id |-> 2, buyer_id |-> 1, seller_id |-> 2, amount |-> 50000,
        price_per_unit |-> 3000, total_price |-> 1500000, status |-> "completed"] >>

SeedSatelliteData ==
    << [project_id |-> 1, source |-> "Sentinel-2"],
       [project_id |-> 2, source |-> "Sentinel-2"] >>

SeedLogs ==
    << [project_id |-> 1, assessment_id |-> 1, model_used |-> "gpt-4",
        confidence_score |-> 95, verification_type |-> "initial"],
       [project_id |-> 2, assessment_id |-> 2, model_used |-> "gpt-4",
        confidence_score |-> 90, verification_type |-> "initial"] >>

(***************************************************************************)
(* Request slots                                                           *)
(***************************************************************************)
IdleReq ==
    [op |-> "idle", pc |-> "idle", user_id |-> 0, project_id |-> 0,
     credit_id |-> 0, amount |-> 0, milli |-> 0, row |-> <<>>, result |-> <<>>,
     assessment_id |-> 0, tx |-> <<>>, flash |-> ""]

NoCall == [called |-> FALSE]

Init ==
    /\ users = Users
    /\ projects = SeedProjects
    /\ assessments = SeedAssessments
    /\ credits = SeedCredits
    /\ transactions = SeedTransactions
    /\ satellite_data = SeedSatelliteData
    /\ logs = SeedLogs
    /\ req = [r \in Slots |-> IdleReq]
    /\ nreq = 0
    /\ aiIn = NoCall
    /\ aiOut = NoCall


(***************************************************************************)
(* Inputs of the requests                                                  *)
(***************************************************************************)
NewProjectTypes == {"agriculture"}
NewAreaSizes == {100}
NewAreaUnits == {"acres"}
Methods == {"GET", "POST"}

\* request.form['amount'] for a lot of quantity q: negative, zero, less than
\* the lot, the whole lot, more than the lot
Amounts(q) == {-100, 0, q - 100, q, q + 100}

\* the thousandths of request.form['amount']: the form field is read with
\* float() and takes any number of decimals.  Here none, and five for a
\* request of the lot's whole quantity q
Millis(q, amount) == IF amount = q THEN {0, 5} ELSE {0}

Idle(r) == req[r].op = "idle"

\* a new request is served by the first free slot (the slots are
\* interchangeable connections)
CanStart(r) ==
    /\ Idle(r)
    /\ nreq < MaxRequests
    /\ \A o \in Slots : o < r => ~Idle(o)

\* the request of slot r is over: conn.close() in the finally clause, which
\* discards whatever was executed and not committed
Close(r) == [req EXCEPT ![r] = IdleReq]

\* the handler of slot r flashes an error and returns its redirect: from a
\* return statement inside the try block or from the except clause.  The
\* connection, with what was executed on it, stays open until the finally
\* clause runs.
\* lines 299-301 and 311-313, 428-430 and 445-447: without a session the
\* handler flashes login_message, without a row it flashes 'Project not
\* found or unauthorized'; it returns a redirect
Refused(r, op, u, pid, login_message) ==
    [req EXCEPT ![r] =
       [IdleReq EXCEPT
          !.op = op, !.pc = "return", !.user_id = u, !.project_id = pid,
          !.flash = IF u = NoUser THEN login_message
                    ELSE "Project not found or unauthorized"]]

Raise(r, message) == [req EXCEPT ![r].pc = "return", ![r].flash = message]

\* TIMESTAMP DEFAULT CURRENT_TIMESTAMP has a resolution of one second: a new
\* row is stamped with the second of the newest row, or a later one
Now(t) == LET newest == Max({0} \cup {t[i].assessment_date : i \in DOMAIN t})
          IN  {newest, newest + 1}

(***************************************************************************)
(* InnoDB row locks, held from the statement to the commit or the close of *)
(* its connection.  An UPDATE locks its row exclusively; an INSERT locks   *)
(* the rows its FOREIGN KEYs reference in shared mode (db_setup.py).  A    *)
(* statement that meets a conflicting lock waits; when the wait ends in a  *)
(* lock wait timeout or a deadlock, the statement raises (RequestFails).   *)
(***************************************************************************)
StatementWrites(st) ==
    CASE st.stmt = "update_credit" -> {<<"carbon_credits", st.id>>}
      [] st.stmt = "update_assessment" -> {<<"carbon_assessments", st.id>>}
      [] st.stmt = "update_project" -> {<<"projects", st.id>>}
      [] OTHER -> {}

StatementReferences(st) ==
    CASE st.stmt = "insert_transaction" -> {<<"carbon_credits", st.row.credit_id>>}
      [] st.stmt = "insert_credit" ->
             {<<"projects", st.row.project_id>>,
              <<"carbon_assessments", st.row.assessment_id>>}
      [] OTHER -> {}

ExclusiveLocks(o) == UNION {StatementWrites(req[o].tx[i]) : i \in DOMAIN req[o].tx}
SharedLocks(o) == UNION {StatementReferences(req[o].tx[i]) : i \in DOMAIN req[o].tx}

\* slot r can lock the rows in shared mode, for a FOREIGN KEY check
MayReference(r, rows) ==
    \A o \in Slots \ {r} : rows \cap ExclusiveLocks(o) = {}

\* slot r can lock the rows exclusively, for an UPDATE
MayWrite(r, rows) ==
    \A o \in Slots \ {r} : rows \cap (ExclusiveLocks(o) \cup SharedLocks(o)) = {}

(***************************************************************************)
(* index.py: register_project (POST)                                       *)
(***************************************************************************)
\* lines 181-209: INSERT INTO projects, commit
register_project(r, u, pt, a, un) ==
    LET project == [user_id |-> u, project_type |-> pt, area_size |-> a,
                    area_unit |-> un, status |-> "registered"]
    IN  /\ CanStart(r)
        /\ projects' = Append(projects, project)
        /\ req' = [req EXCEPT ![r] =
                     [IdleReq EXCEPT !.op = "register_project", !.pc = "satellite",
                                     !.user_id = u, !.project_id = Len(projects) + 1,
                                     !.row = <<project>>]]
        /\ nreq' = nreq + 1
        /\ UNCHANGED <<users, assessments, credits, transactions, satellite_data, logs,
                       aiIn, aiOut>>

\* project_assessment with a SELECT that has no condition on user_id
project_assessment_any_user(r, u, pid) ==
    /\ CanStart(r)
    /\ pid \in DOMAIN projects
    /\ nreq' = nreq + 1
    /\ IF u # NoUser
       THEN /\ MayWrite(r, {<<"projects", pid>>})
            /\ projects' = [projects EXCEPT ![pid].status = "assessing"]
            /\ req' = [req EXCEPT ![r] =
                         [IdleReq EXCEPT !.op = "project_assessment",
                                         !.pc = "satellite", !.user_id = u,
                                         !.project_id = pid,
                                         !.row = <<projects[pid]>>]]
       ELSE /\ req' = Refused(r, "project_assessment", u, pid,
                              "Please login to view project assessment")
            /\ UNCHANGED projects
    /\ UNCHANGED <<users, assessments, credits, transactions, satellite_data, logs,
                   aiIn, aiOut>>

(***************************************************************************)
(* index.py: project_assessment                                            *)
(***************************************************************************)
\* lines 299-322: SELECT the project of the session user; UPDATE projects
\* SET status = 'assessing', commit
project_assessment(r, u, pid) ==
    /\ CanStart(r)
    /\ pid \in DOMAIN projects
    /\ nreq' = nreq + 1
    /\ IF u # NoUser /\ projects[pid].user_id = u
       THEN /\ MayWrite(r, {<<"projects", pid>>})
            /\ projects' = [projects EXCEPT ![pid].status = "assessing"]
            /\ req' = [req EXCEPT ![r] =
                         [IdleReq EXCEPT !.op = "project_assessment",
                                         !.pc = "satellite", !.user_id = u,
                                         !.project_id = pid,
                                         !.row = <<projects[pid]>>]]
       ELSE /\ req' = Refused(r, "project_assessment", u, pid,
                              "Please login to view project assessment")
            /\ UNCHANGED projects
    /\ UNCHANGED <<users, assessments, credits, transactions, satellite_data, logs,
                   aiIn, aiOut>>

(***************************************************************************)
(* The assessment phase both handlers share (register_project lines        *)
(* 211-286, project_assessment lines 324-411): every statement is          *)
(* followed by its own conn.commit()                                       *)
(***************************************************************************)
InAssessment(r) == req[r].op \in {"register_project", "project_assessment"}

\* StoreSatelliteData with a fetch_satellite_imagery that has no except
\* clause: its exception reaches the except clause of the handler
StoreSatelliteDataRaises(r, ok) ==
    /\ InAssessment(r)
    /\ req[r].pc = "satellite"
    /\ MayReference(r, {<<"projects", req[r].project_id>>})
    /\ IF ok
       THEN /\ satellite_data' =
                   Append(satellite_data,
                          [project_id |-> req[r].project_id,
                           source |-> fetch_satellite_imagery(ok).source])
            /\ req' = [req EXCEPT ![r].pc = "analyze"]
       ELSE /\ satellite_data' = satellite_data
            /\ req' = Raise(r, "Satellite data fetch error")
    /\ UNCHANGED <<users, projects, assessments, credits, transactions, logs, nreq,
                   aiIn, aiOut>>

\* fetch_satellite_imagery; INSERT INTO satellite_data, commit
StoreSatelliteData(r, ok) ==
    /\ InAssessment(r)
    /\ req[r].pc = "satellite"
    /\ MayReference(r, {<<"projects", req[r].project_id>>})
    /\ satellite_data' =
           Append(satellite_data,
                  [project_id |-> req[r].project_id,
                   source |-> fetch_satellite_imagery(ok).source])
    /\ req' = [req EXCEPT ![r].pc = "analyze"]
    /\ UNCHANGED <<users, projects, assessments, credits, transactions, logs, nreq,
                   aiIn, aiOut>>

\* analyze_project; INSERT INTO carbon_assessments, commit; LAST_INSERT_ID()
StoreAssessment(r, resp, tie_up, date) ==
    LET assessment_result == analyze_project(req[r].row[1], resp, tie_up)
    IN  /\ InAssessment(r)
        /\ req[r].pc = "analyze"
        /\ MayReference(r, {<<"projects", req[r].project_id>>})
        /\ assessments' =
               Append(assessments,
                      [project_id |-> req[r].project_id,
                       carbon_estimate |-> assessment_result.carbon_estimate,
                       confidence_score |-> assessment_result.confidence_score,
                       ai_model_version |-> assessment_result.model_version,
                       verification_status |-> "pending",
                       assessment_date |-> date])
        /\ req' = [req EXCEPT ![r].pc = "log",
                              ![r].result = <<assessment_result>>,
                              ![r].assessment_id = Len(assessments) + 1]
        /\ UNCHANGED <<users, projects, credits, transactions, satellite_data, logs,
                       nreq, aiIn, aiOut>>

\* INSERT INTO ai_verification_logs, commit; project_assessment then renders
StoreVerificationLog(r) ==
    /\ InAssessment(r)
    /\ req[r].pc = "log"
    /\ MayReference(r, {<<"projects", req[r].project_id>>,
                        <<"carbon_assessments", req[r].assessment_id>>})
    /\ logs' = Append(logs,
                      [project_id |-> req[r].project_id,
                       assessment_id |-> req[r].assessment_id,
                       model_used |-> req[r].result[1].model_version,
                       confidence_score |-> req[r].result[1].confidence_score,
                       verification_type |-> "initial"])
    /\ req' = IF req[r].op = "register_project"
              THEN [req EXCEPT ![r].pc = "status"]
              ELSE Close(r)
    /\ UNCHANGED <<users, projects, assessments, credits, transactions, satellite_data,
                   nreq, aiIn, aiOut>>

\* register_project lines 280-288: UPDATE projects SET status = 'assessing',
\* commit
UpdateProjectStatus(r) ==
    /\ req[r].op = "register_project"
    /\ req[r].pc = "status"
    /\ MayWrite(r, {<<"projects", req[r].project_id>>})
    /\ projects' = [projects EXCEPT ![req[r].project_id].status = "assessing"]
    /\ req' = Close(r)
    /\ UNCHANGED <<users, assessments, credits, transactions, satellite_data, logs,
                   nreq, aiIn, aiOut>>

\* the finally clause of a handler that has flashed an error: conn.close()
CloseConnection(r) ==
    /\ req[r].pc = "return"
    /\ req' = Close(r)
    /\ UNCHANGED <<users, projects, assessments, credits, transactions, satellite_data,
                   logs, nreq, aiIn, aiOut>>

\* an exception in the middle of a handler (a failing statement, a lost
\* connection, a lock wait timeout, a ValueError of float()): the except
\* clause flashes the error and the finally clause closes the connection
RequestFails(r) ==
    /\ ~Idle(r)
    /\ req' = Close(r)
    /\ UNCHANGED <<users, projects, assessments, credits, transactions, satellite_data,
                   logs, nreq, aiIn, aiOut>>

(***************************************************************************)
(* Statements executed on a connection and not yet committed, and what     *)
(* conn.commit() makes of them: an UPDATE applies to the newest committed  *)
(* row, whatever the earlier SELECT of the connection has seen.            *)
(***************************************************************************)
RECURSIVE CommitProjects(_, _)
CommitProjects(tx, t) ==
    IF tx = <<>> THEN t
    ELSE LET st == Head(tx)
             u  == IF st.stmt = "update_project" /\ st.id \in DOMAIN t
                   THEN [t EXCEPT ![st.id].status = st.status]
                   ELSE t
         IN  CommitProjects(Tail(tx), u)

RECURSIVE CommitAssessments(_, _)
CommitAssessments(tx, t) ==
    IF tx = <<>> THEN t
    ELSE LET st == Head(tx)
             u  == IF st.stmt = "update_assessment" /\ st.id \in DOMAIN t
                   THEN [t EXCEPT ![st.id].verification_status = st.status]
                   ELSE t
         IN  CommitAssessments(Tail(tx), u)

RECURSIVE CommitCredits(_, _)
CommitCredits(tx, t) ==
    IF tx = <<>> THEN t
    ELSE LET st == Head(tx)
             u  == CASE st.stmt = "update_credit" /\ st.id \in DOMAIN t ->
                            [t EXCEPT ![st.id][st.col] = st.val]
                     [] st.stmt = "insert_credit" -> Append(t, st.row)
                     [] OTHER -> t
         IN  CommitCredits(Tail(tx), u)

RECURSIVE CommitTransactions(_, _)
CommitTransactions(tx, t) ==
    IF tx = <<>> THEN t
    ELSE LET st == Head(tx)
             u  == IF st.stmt = "insert_transaction" THEN Append(t, st.row) ELSE t
         IN  CommitTransactions(Tail(tx), u)

\* cursor.execute(...) of a statement inside the open transaction of slot r
Execute(r, st) == [req EXCEPT ![r].tx = Append(@, st)]

\* conn.commit() of slot r, after which the handler returns
Commit(r) ==
    /\ projects' = CommitProjects(req[r].tx, projects)
    /\ assessments' = CommitAssessments(req[r].tx, assessments)
    /\ credits' = CommitCredits(req[r].tx, credits)
    /\ transactions' = CommitTransactions(req[r].tx, transactions)
    /\ req' = Close(r)

\* the certificate ids other open transactions have inserted and not committed
PendingCertificates(r) ==
    UNION {{req[o].tx[i].row.certificate_id :
               i \in {j \in DOMAIN req[o].tx : req[o].tx[j].stmt = "insert_credit"}} :
           o \in Slots \ {r}}

(***************************************************************************)
(* index.py: generate_report                                               *)
(***************************************************************************)
\* the rows of SELECT p.*, ca.* ... ORDER BY ca.assessment_date DESC LIMIT 1
\* can be: the assessments of the project with the newest date
LatestAssessments(pid, u) ==
    LET own == {a \in DOMAIN assessments :
                   /\ assessments[a].project_id = pid
                   /\ projects[pid].user_id = u}
    IN  {a \in own : \A b \in own :
            assessments[b].assessment_date <= assessments[a].assessment_date}

\* generate_report with a generate_assessment_report that has no except
\* clause: a failing chat completion call reaches the except clause of the
\* handler
generate_report_ai_raises(r, u, pid, ok) ==
    /\ CanStart(r)
    /\ pid \in DOMAIN projects
    /\ nreq' = nreq + 1
    /\ IF u = NoUser \/ LatestAssessments(pid, u) = {}
       THEN req' = Refused(r, "generate_report", u, pid,
                           "Please login to generate a report")
       ELSE \E a \in LatestAssessments(pid, u) :
               req' = [req EXCEPT ![r] =
                         [IdleReq EXCEPT
                            !.op = "generate_report",
                            !.pc = IF ok THEN "execute" ELSE "return",
                            !.flash = IF ok THEN "" ELSE "Report generation error",
                            !.user_id = u, !.project_id = pid,
                            !.row = <<[id |-> pid, ca_id |-> a,
                                       carbon_estimate |->
                                           assessments[a].carbon_estimate]>>,
                            !.result = <<generate_assessment_report(ok)>>]]
    /\ UNCHANGED <<users, projects, assessments, credits, transactions, satellite_data,
                   logs, aiIn, aiOut>>

\* lines 428-450.  With DictCursor a column name met a second time is stored
\* as "<table>.<name>": project_data['id'] is p.id and the assessment's id is
\* project_data['ca.id'], here ca_id.
generate_report(r, u, pid, ok) ==
    /\ CanStart(r)
    /\ pid \in DOMAIN projects
    /\ nreq' = nreq + 1
    /\ IF u = NoUser \/ LatestAssessments(pid, u) = {}
       THEN req' = Refused(r, "generate_report", u, pid,
                           "Please login to generate a report")
       ELSE \E a \in LatestAssessments(pid, u) :
               req' = [req EXCEPT ![r] =
                         [IdleReq EXCEPT
                            !.op = "generate_report", !.pc = "execute",
                            !.user_id = u, !.project_id = pid,
                            !.row = <<[id |-> pid, ca_id |-> a,
                                       carbon_estimate |->
                                           assessments[a].carbon_estimate]>>,
                            !.result = <<generate_assessment_report(ok)>>]]
    /\ UNCHANGED <<users, projects, assessments, credits, transactions, satellite_data,
                   logs, aiIn, aiOut>>

\* IssueCredits on a table whose certificate_id column is not UNIQUE
IssueCreditsNoUnique(r, tok) ==
    LET project_data == req[r].row[1]
        project_id == req[r].project_id
        certificate_id == <<project_id, tok>>
        credit == [project_id |-> project_id,
                   assessment_id |-> project_data.id,
                   credit_amount |-> project_data.carbon_estimate,
                   certificate_id |-> certificate_id,
                   status |-> "available",
                   price_per_credit |-> 2500]
        updates == << [stmt |-> "update_assessment", id |-> project_data.id,
                       status |-> "approved"],
                      [stmt |-> "update_project", id |-> project_id,
                       status |-> "verified"] >>
        insert == [stmt |-> "insert_credit", row |-> credit]
    IN  /\ req[r].op = "generate_report"
        /\ req[r].pc = "execute"
        /\ MayWrite(r, {<<"carbon_assessments", project_data.id>>,
                        <<"projects", project_id>>})
        /\ certificate_id \notin PendingCertificates(r)
        /\ req' = IF project_data.id \notin DOMAIN assessments
                  THEN [Raise(r, "IntegrityError 1452") EXCEPT ![r].tx = updates]
                  ELSE [req EXCEPT ![r].tx = Append(updates, insert),
                                   ![r].pc = "commit"]
        /\ UNCHANGED <<users, projects, assessments, credits, transactions,
                       satellite_data, logs, nreq, aiIn, aiOut>>

\* IssueCredits on a connection opened with autocommit: each statement is
\* committed as it is executed
IssueCreditsAutocommit(r, tok) ==
    LET project_data == req[r].row[1]
        project_id == req[r].project_id
        certificate_id == <<project_id, tok>>
        credit == [project_id |-> project_id,
                   assessment_id |-> project_data.id,
                   credit_amount |-> project_data.carbon_estimate,
                   certificate_id |-> certificate_id,
                   status |-> "available",
                   price_per_credit |-> 2500]
        updates == << [stmt |-> "update_assessment", id |-> project_data.id,
                       status |-> "approved"],
                      [stmt |-> "update_project", id |-> project_id,
                       status |-> "verified"] >>
        insert == [stmt |-> "insert_credit", row |-> credit]
        raises == \/ project_data.id \notin DOMAIN assessments
                  \/ \E c \in DOMAIN credits :
                         credits[c].certificate_id = certificate_id
    IN  /\ req[r].op = "generate_report"
        /\ req[r].pc = "execute"
        /\ MayWrite(r, {<<"carbon_assessments", project_data.id>>,
                        <<"projects", project_id>>})
        /\ certificate_id \notin PendingCertificates(r)
        /\ projects' = CommitProjects(updates, projects)
        /\ assessments' = CommitAssessments(updates, assessments)
        /\ credits' = IF raises THEN credits ELSE CommitCredits(<<insert>>, credits)
        /\ req' = IF raises
                  THEN Raise(r, "IntegrityError")
                  ELSE [req EXCEPT ![r].pc = "commit"]
        /\ UNCHANGED <<users, transactions, satellite_data, logs, nreq, aiIn,
                       aiOut>>

\* lines 452-486: the two UPDATEs and the INSERT INTO carbon_credits.  The
\* INSERT raises IntegrityError when assessment_id names no assessment
\* (error 1452) or the certificate_id exists (error 1062), and waits for an
\* uncommitted equal one.
IssueCredits(r, tok) ==
    LET project_data == req[r].row[1]
        project_id == req[r].project_id
        certificate_id == <<project_id, tok>>
        credit == [project_id |-> project_id,
                   assessment_id |-> project_data.id,
                   credit_amount |-> project_data.carbon_estimate,
                   certificate_id |-> certificate_id,
                   status |-> "available",
                   price_per_credit |-> 2500]
        updates == << [stmt |-> "update_assessment", id |-> project_data.id,
                       status |-> "approved"],
                      [stmt |-> "update_project", id |-> project_id,
                       status |-> "verified"] >>
        insert == [stmt |-> "insert_credit", row |-> credit]
    IN  /\ req[r].op = "generate_report"
        /\ req[r].pc = "execute"
        /\ MayWrite(r, {<<"carbon_assessments", project_data.id>>,
                        <<"projects", project_id>>})
        /\ certificate_id \notin PendingCertificates(r)
        /\ req' = IF project_data.id \notin DOMAIN assessments
                  THEN [Raise(r, "IntegrityError 1452") EXCEPT ![r].tx = updates]
                  ELSE IF \E c \in DOMAIN credits :
                              credits[c].certificate_id = certificate_id
                  THEN [Raise(r, "IntegrityError 1062") EXCEPT ![r].tx = updates]
                  ELSE [req EXCEPT ![r].tx = Append(updates, insert),
                                   ![r].pc = "commit"]
        /\ UNCHANGED <<users, projects, assessments, credits, transactions,
                       satellite_data, logs, nreq, aiIn, aiOut>>

\* line 488
CommitReport(r) ==
    /\ req[r].op = "generate_report"
    /\ req[r].pc = "commit"
    /\ Commit(r)
    /\ UNCHANGED <<users, satellite_data, logs, nreq, aiIn, aiOut>>

(***************************************************************************)
(* index.py: buy_credit                                                    *)
(***************************************************************************)
\* the credit ids of a request: those of the lots and one that names no lot
CreditIds == DOMAIN credits \cup {Len(credits) + 1}

\* request.form['amount'] of a request for credit id cid
AmountsFor(cid) ==
    IF cid \in DOMAIN credits THEN Amounts(credits[cid].credit_amount) ELSE {100}

\* the thousandths of request.form['amount'] of a request for credit id cid
MillisFor(cid, amount) ==
    IF cid \in DOMAIN credits THEN Millis(credits[cid].credit_amount, amount)
    ELSE {0}

\* buy_credit with a SELECT that has no condition on cc.status
buy_credit_any_status(r, u, cid, method, amount, milli) ==
    /\ CanStart(r)
    /\ cid \in CreditIds
    /\ amount \in AmountsFor(cid)
    /\ milli \in MillisFor(cid, amount)
    /\ nreq' = nreq + 1
    /\ req' =
         IF cid \notin DOMAIN credits
         THEN [req EXCEPT ![r] =
                 [IdleReq EXCEPT
                    !.op = "buy_credit", !.pc = "return", !.user_id = u,
                    !.credit_id = cid,
                    !.flash = "Credit not available for purchase"]]
         ELSE IF method = "POST"
         THEN [req EXCEPT ![r] =
                 [IdleReq EXCEPT
                    !.op = "buy_credit", !.pc = "insert", !.user_id = u,
                    !.credit_id = cid, !.amount = amount,
                    !.milli = milli,
                    !.row = <<[credit_amount |-> credits[cid].credit_amount,
                               price_per_credit |->
                                   credits[cid].price_per_credit,
                               seller_id |->
                                   projects[credits[cid].project_id].user_id]>>]]
         ELSE req
    /\ UNCHANGED <<users, projects, assessments, credits, transactions, satellite_data,
                   logs, aiIn, aiOut>>

\* lines 583-603 and 651: SELECT the lot if it is 'available'; without a row
\* the handler flashes 'Credit not available for purchase' and returns; a
\* GET renders the form
buy_credit(r, u, cid, method, amount, milli) ==
    /\ CanStart(r)
    /\ cid \in CreditIds
    /\ amount \in AmountsFor(cid)
    /\ milli \in MillisFor(cid, amount)
    /\ nreq' = nreq + 1
    /\ req' =
         IF cid \notin DOMAIN credits \/ credits[cid].status # "available"
         THEN [req EXCEPT ![r] =
                 [IdleReq EXCEPT
                    !.op = "buy_credit", !.pc = "return", !.user_id = u,
                    !.credit_id = cid,
                    !.flash = "Credit not available for purchase"]]
         ELSE IF method = "POST"
         THEN [req EXCEPT ![r] =
                 [IdleReq EXCEPT
                    !.op = "buy_credit", !.pc = "insert", !.user_id = u,
                    !.credit_id = cid, !.amount = amount,
                    !.milli = milli,
                    !.row = <<[credit_amount |-> credits[cid].credit_amount,
                               price_per_credit |->
                                   credits[cid].price_per_credit,
                               seller_id |->
                                   projects[credits[cid].project_id].user_id]>>]]
         ELSE req
    /\ UNCHANGED <<users, projects, assessments, credits, transactions, satellite_data,
                   logs, aiIn, aiOut>>

\* lines 601-603: float(request.form['amount']) * float(price_per_credit).
\* The amount is amount hundredths and milli thousandths, the price is in
\* hundredths; the product, a double, is stored in a DECIMAL(12, 2) column,
\* that is the nearest hundredth, a tie going either way with the error of
\* the multiplication
TotalPrice(amount, milli, price_per_unit, tie_up) ==
    LET whole == (amount * price_per_unit) \div 100
        rest == (amount * price_per_unit) % 100
    IN  whole + RoundDouble(rest * 10 + milli * price_per_unit, 1000, tie_up)

\* n / d rounded half away from zero
RoundHalfAway(n, d) ==
    IF n >= 0 THEN (2 * n + d) \div (2 * d) ELSE - ((2 * (- n) + d) \div (2 * d))

\* lines 605-610 and db_setup.py line 120: the float amount, stored in the
\* DECIMAL(12, 2) column transactions.amount, is rounded half away from zero
\* to hundredths
DecimalColumn(amount, milli) == RoundHalfAway(amount * 10 + milli, 10)

\* InsertTransaction on a connection in autocommit mode: the row is visible
\* at once
InsertTransactionAutocommit(r, tie_up) ==
    LET credit == req[r].row[1]
        row == [credit_id |-> req[r].credit_id,
                buyer_id |-> req[r].user_id,
                seller_id |-> credit.seller_id,
                amount |-> DecimalColumn(req[r].amount, req[r].milli),
                price_per_unit |-> credit.price_per_credit,
                total_price |-> TotalPrice(req[r].amount, req[r].milli,
                                          credit.price_per_credit, tie_up),
                status |-> "completed"]
    IN  /\ req[r].op = "buy_credit"
        /\ req[r].pc = "insert"
        /\ MayReference(r, {<<"carbon_credits", req[r].credit_id>>})
        /\ transactions' = Append(transactions, row)
        /\ req' = [req EXCEPT ![r].pc = "update"]
        /\ UNCHANGED <<users, projects, assessments, credits, satellite_data, logs,
                       nreq, aiIn, aiOut>>

\* lines 605-610: INSERT INTO transactions
InsertTransaction(r, tie_up) ==
    LET credit == req[r].row[1]
        row == [credit_id |-> req[r].credit_id,
                buyer_id |-> req[r].user_id,
                seller_id |-> credit.seller_id,
                amount |-> DecimalColumn(req[r].amount, req[r].milli),
                price_per_unit |-> credit.price_per_credit,
                total_price |-> TotalPrice(req[r].amount, req[r].milli,
                                          credit.price_per_credit, tie_up),
                status |-> "completed"]
    IN  /\ req[r].op = "buy_credit"
        /\ req[r].pc = "insert"
        /\ MayReference(r, {<<"carbon_credits", req[r].credit_id>>})
        /\ req' = [Execute(r, [stmt |-> "insert_transaction", row |-> row])
                       EXCEPT ![r].pc = "update"]
        /\ UNCHANGED <<users, projects, assessments, credits, transactions,
                       satellite_data, logs, nreq, aiIn, aiOut>>

\* line 613: amount >= credit['credit_amount'], a float against a Decimal
AllPurchased(amount, milli, credit_amount) ==
    amount * 10 + milli >= credit_amount * 10

\* UpdateCredit with credit['credit_amount'] converted to float before
\* line 621: the else branch sets the lot to the purchased amount and inserts
\* a lot for the remainder
UpdateCreditFloatSplit(r) ==
    /\ req[r].op = "buy_credit"
    /\ req[r].pc = "update"
    /\ MayWrite(r, {<<"carbon_credits", req[r].credit_id>>})
    /\ IF AllPurchased(req[r].amount, req[r].milli,
                       req[r].row[1].credit_amount)
       THEN req' = [Execute(r, [stmt |-> "update_credit", id |-> req[r].credit_id,
                                col |-> "status", val |-> "sold"])
                        EXCEPT ![r].pc = "commit"]
       ELSE \E tok \in Tokens :
               LET lot == credits[req[r].credit_id]
                   new_amount == RoundHalfAway(req[r].row[1].credit_amount * 10
                                                - (req[r].amount * 10 + req[r].milli), 10)
                   sibling == [lot EXCEPT !.credit_amount = new_amount,
                                          !.certificate_id = <<lot.project_id, tok>>,
                                          !.status = "available"]
               IN  /\ \A c \in DOMAIN credits :
                          credits[c].certificate_id # sibling.certificate_id
                   /\ req' = [req EXCEPT
                                ![r].tx = req[r].tx \o
                                    << [stmt |-> "update_credit",
                                        id |-> req[r].credit_id,
                                        col |-> "credit_amount",
                                        val |-> DecimalColumn(req[r].amount,
                                                             req[r].milli)],
                                       [stmt |-> "insert_credit", row |-> sibling] >>,
                                ![r].pc = "commit"]
    /\ UNCHANGED <<users, projects, assessments, credits, transactions, satellite_data,
                   logs, nreq, aiIn, aiOut>>

\* UpdateCredit with a full purchase that zeroes the lot's credit_amount
\* instead of setting its status
UpdateCreditZeroes(r) ==
    /\ req[r].op = "buy_credit"
    /\ req[r].pc = "update"
    /\ IF AllPurchased(req[r].amount, req[r].milli,
                       req[r].row[1].credit_amount)
       THEN /\ MayWrite(r, {<<"carbon_credits", req[r].credit_id>>})
            /\ req' = [Execute(r, [stmt |-> "update_credit",
                                   id |-> req[r].credit_id,
                                   col |-> "credit_amount", val |-> 0])
                           EXCEPT ![r].pc = "commit"]
       ELSE req' = Raise(r, "TypeError")
    /\ UNCHANGED <<users, projects, assessments, credits, transactions, satellite_data,
                   logs, nreq, aiIn, aiOut>>

\* lines 612-645.  credit['credit_amount'] is a decimal.Decimal (the column is
\* DECIMAL(12, 2), db_setup.py line 101, and db_config sets no converter) and
\* amount is a float (line 601): line 621, credit['credit_amount'] - amount,
\* raises TypeError and control goes to the except clause of line 652.
UpdateCredit(r) ==
    /\ req[r].op = "buy_credit"
    /\ req[r].pc = "update"
    /\ IF AllPurchased(req[r].amount, req[r].milli,
                       req[r].row[1].credit_amount)
       THEN /\ MayWrite(r, {<<"carbon_credits", req[r].credit_id>>})
            /\ req' = [Execute(r, [stmt |-> "update_credit",
                                   id |-> req[r].credit_id,
                                   col |-> "status", val |-> "sold"])
                           EXCEPT ![r].pc = "commit"]
       ELSE req' = Raise(r, "TypeError")
    /\ UNCHANGED <<users, projects, assessments, credits, transactions, satellite_data,
                   logs, nreq, aiIn, aiOut>>

\* line 647
CommitPurchase(r) ==
    /\ req[r].op = "buy_credit"
    /\ req[r].pc = "commit"
    /\ Commit(r)
    /\ UNCHANGED <<users, satellite_data, logs, nreq, aiIn, aiOut>>

(***************************************************************************)
(* The web application: requests of any user, two at a time                *)
(***************************************************************************)
Next ==
    \/ \E r \in Slots, u \in Users, pt \in NewProjectTypes, a \in NewAreaSizes,
          un \in NewAreaUnits : register_project(r, u, pt, a, un)
    \/ \E r \in Slots, u \in Sessions, pid \in DOMAIN projects :
          project_assessment(r, u, pid)
    \/ \E r \in Slots, ok \in BOOLEAN : StoreSatelliteData(r, ok)
    \/ \E r \in Slots, resp \in AIResponses, tie_up \in BOOLEAN,
          date \in Now(assessments) : StoreAssessment(r, resp, tie_up, date)
    \/ \E r \in Slots : StoreVerificationLog(r)
    \/ \E r \in Slots : UpdateProjectStatus(r)
    \/ \E r \in Slots, u \in Sessions, pid \in DOMAIN projects, ok \in BOOLEAN :
          generate_report(r, u, pid, ok)
    \/ \E r \in Slots, tok \in Tokens : IssueCredits(r, tok)
    \/ \E r \in Slots : CommitReport(r)
    \/ \E r \in Slots, u \in Users, cid \in CreditIds, method \in Methods :
          \E amount \in AmountsFor(cid) : \E milli \in MillisFor(cid, amount) :
              buy_credit(r, u, cid, method, amount, milli)
    \/ \E r \in Slots, tie_up \in BOOLEAN : InsertTransaction(r, tie_up)
    \/ \E r \in Slots : UpdateCredit(r)
    \/ \E r \in Slots : CommitPurchase(r)
    \/ \E r \in Slots : CloseConnection(r)
    \/ \E r \in Slots : RequestFails(r)

Spec == Init /\ [][Next]_vars

(***************************************************************************)
(* Credit Issuer and Credit Exchange alone: generate_report and buy_credit *)
(* requests over the seeded ledger                                         *)
(***************************************************************************)
NextExchange ==
    \/ \E r \in Slots, u \in Sessions, pid \in DOMAIN projects, ok \in BOOLEAN :
          generate_report(r, u, pid, ok)
    \/ \E r \in Slots, tok \in Tokens : IssueCredits(r, tok)
    \/ \E r \in Slots : CommitReport(r)
    \/ \E r \in Slots, u \in Users, cid \in CreditIds, method \in Methods :
          \E amount \in AmountsFor(cid) : \E milli \in MillisFor(cid, amount) :
              buy_credit(r, u, cid, method, amount, milli)
    \/ \E r \in Slots, tie_up \in BOOLEAN : InsertTransaction(r, tie_up)
    \/ \E r \in Slots : UpdateCredit(r)
    \/ \E r \in Slots : CommitPurchase(r)
    \/ \E r \in Slots : CloseConnection(r)
    \/ \E r \in Slots : RequestFails(r)

SpecExchange == Init /\ [][NextExchange]_vars

(***************************************************************************)
(* The Assessment Recorder alone, register_project and project_assessment, *)
(* over a ledger store that does not fail: no statement raises and no      *)
(* connection is lost.  A handler that has started runs on: a request is   *)
(* served by a thread of its own that nothing suspends for ever.           *)
(***************************************************************************)
\* the next statement of the assessment phase of slot r
RecorderStep(r) ==
    \/ \E ok \in BOOLEAN : StoreSatelliteData(r, ok)
    \/ \E resp \in AIResponses, tie_up \in BOOLEAN, date \in Now(assessments) :
          StoreAssessment(r, resp, tie_up, date)
    \/ StoreVerificationLog(r)
    \/ UpdateProjectStatus(r)
    \/ CloseConnection(r)

NextRecorder ==
    \/ \E r \in Slots, u \in Users, pt \in NewProjectTypes, a \in NewAreaSizes,
          un \in NewAreaUnits : register_project(r, u, pt, a, un)
    \/ \E r \in Slots, u \in Sessions, pid \in DOMAIN projects :
          project_assessment(r, u, pid)
    \/ \E r \in Slots : RecorderStep(r)

SpecRecorder ==
    Init /\ [][NextRecorder]_vars /\ \A r \in Slots : WF_vars(RecorderStep(r))

(***************************************************************************)
(* db_setup.py: DELETE FROM users WHERE id = u under the FOREIGN KEYs of   *)
(* the schema.  Every FOREIGN KEY but one is ON DELETE CASCADE: the rows   *)
(* that reference a deleted row are deleted with it, table after table.    *)
(* ai_verification_logs.assessment_id is ON DELETE SET NULL; NULL is 0,    *)
(* which is no row's id.                                                   *)
(***************************************************************************)
\* projects.user_id REFERENCES users(id) ON DELETE CASCADE
CascadeProjects(du) == {p \in DOMAIN projects : projects[p].user_id \in du}

\* carbon_assessments.project_id REFERENCES projects(id) ON DELETE CASCADE
CascadeAssessments(dp) ==
    {a \in DOMAIN assessments : assessments[a].project_id \in dp}

\* carbon_credits.project_id REFERENCES projects(id) ON DELETE CASCADE,
\* carbon_credits.assessment_id REFERENCES carbon_assessments(id) ON DELETE
\* CASCADE
CascadeCredits(dp, da) ==
    {c \in DOMAIN credits :
        credits[c].project_id \in dp \/ credits[c].assessment_id \in da}

\* CascadeTransactions when buyer_id and seller_id have no FOREIGN KEY
CascadeTransactionsByCredit(du, dc) ==
    {t \in DOMAIN transactions : transactions[t].credit_id \in dc}

\* transactions.credit_id REFERENCES carbon_credits(id) ON DELETE CASCADE,
\* transactions.buyer_id and seller_id REFERENCES users(id) ON DELETE CASCADE
CascadeTransactions(du, dc) ==
    {t \in DOMAIN transactions :
        \/ transactions[t].credit_id \in dc
        \/ transactions[t].buyer_id \in du
        \/ transactions[t].seller_id \in du}

\* satellite_data.project_id REFERENCES projects(id) ON DELETE CASCADE
CascadeSatelliteData(dp) ==
    {i \in DOMAIN satellite_data : satellite_data[i].project_id \in dp}

\* ai_verification_logs.project_id REFERENCES projects(id) ON DELETE CASCADE
CascadeLogs(dp) == {i \in DOMAIN logs : logs[i].project_id \in dp}

\* ai_verification_logs.assessment_id REFERENCES carbon_assessments(id) ON
\* DELETE SET NULL
SetNull(t, da) ==
    [i \in DOMAIN t |->
        IF t[i].assessment_id \in da THEN [t[i] EXCEPT !.assessment_id = 0]
        ELSE t[i]]

\* table t without the rows deleted
Without(t, deleted) == [i \in DOMAIN t \ deleted |-> t[i]]

\* DELETE FROM users WHERE id = u, while no request holds a row lock
DeleteUser(u) ==
    LET du == {u}
        dp == CascadeProjects(du)
        da == CascadeAssessments(dp)
        dc == CascadeCredits(dp, da)
    IN  /\ u \in users
        /\ \A r \in Slots : Idle(r)
        /\ users' = users \ du
        /\ projects' = Without(projects, dp)
        /\ assessments' = Without(assessments, da)
        /\ credits' = Without(credits, dc)
        /\ transactions' = Without(transactions, CascadeTransactions(du, dc))
        /\ satellite_data' = Without(satellite_data, CascadeSatelliteData(dp))
        /\ logs' = SetNull(Without(logs, CascadeLogs(dp)), da)
        /\ UNCHANGED <<req, nreq, aiIn, aiOut>>

\* no row has been deleted: the tables are sequences
Intact == users = Users

\* the issuer and the exchange until an administrator deletes users; the
\* requests that follow a DELETE are not part of this specification
NextCascade ==
    \/ Intact /\ NextExchange
    \/ \E u \in Users : DeleteUser(u)

SpecCascade == Init /\ [][NextCascade]_vars

(***************************************************************************)
(* analyze_project alone, on any project and any answer of the model       *)
(***************************************************************************)
AnalyzeTypes == ProjectTypes \cup {"unlisted"}
AnalyzeAreaSizes == (0 .. 20) \cup {100, 10000}

InitAnalyze ==
    /\ users = Users
    /\ projects = SeedProjects
    /\ assessments = SeedAssessments
    /\ credits = SeedCredits
    /\ transactions = SeedTransactions
    /\ satellite_data = SeedSatelliteData
    /\ logs = SeedLogs
    /\ req = [r \in Slots |-> IdleReq]
    /\ nreq = 0
    /\ aiIn \in [called : {TRUE},
                 project_data : [project_type : AnalyzeTypes,
                                 area_size : AnalyzeAreaSizes,
                                 area_unit : AreaUnits],
                 resp : AIResponses,
                 tie_up : BOOLEAN]
    /\ aiOut = NoCall

AnalyzeCall ==
    /\ aiOut = NoCall
    /\ aiOut' = [called |-> TRUE,
                 result |-> analyze_project(aiIn.project_data, aiIn.resp,
                                            aiIn.tie_up)]
    /\ UNCHANGED <<users, projects, assessments, credits, transactions, satellite_data,
                   logs, req, nreq, aiIn>>

NextAnalyze == AnalyzeCall

SpecAnalyze == InitAnalyze /\ [][NextAnalyze]_vars

(***************************************************************************)
(* Properties of the ledger                                                *)
(***************************************************************************)
\* the transactions buy_credit has inserted (the others are seeded)
PurchaseIds == {t \in DOMAIN transactions : t > Len(SeedTransactions)}

\* the purchases whose buyer is not the owner of the lot's project
ArmsLength == {t \in PurchaseIds : transactions[t].buyer_id # transactions[t].seller_id}

\* the lots that reference assessment a
LotsOf(cr, a) == {c \in DOMAIN cr : cr[c].assessment_id = a}

\* the sum of credit_amount over the lots that reference assessment a
LotSum(cr, a) == SumOver(LotsOf(cr, a), [c \in DOMAIN cr |-> cr[c].credit_amount])

\* slot r commits a purchase in this step
PurchaseCommits(r) ==
    /\ req[r].op = "buy_credit"
    /\ req[r].pc = "commit"
    /\ req'[r] = IdleReq
    /\ transactions' # transactions

\* C1: every purchase buy_credit commits leaves, for every assessment, the
\* sum of credit_amount over the lots of that assessment as it was
C1_PurchaseConservesQuantity ==
    [][\A r \in Slots :
          PurchaseCommits(r) =>
              \A a \in DOMAIN assessments : LotSum(credits', a) = LotSum(credits, a)]_vars

\* a purchase has been committed: its transaction is in the ledger and its
\* lot is sold
C1_Witness ==
    \E t \in PurchaseIds : credits[transactions[t].credit_id].status = "sold"

\* C2: of two purchases of one lot, each for at most the lot's quantity and
\* together for more, only one is committed (stated for the purchases whose
\* buyer is not the seller)
C2_OneConcurrentBuyerWins ==
    \A t1, t2 \in ArmsLength :
        LET q == credits[transactions[t1].credit_id].credit_amount
        IN  ~ /\ t1 # t2
              /\ transactions[t1].credit_id = transactions[t2].credit_id
              /\ transactions[t1].amount <= q
              /\ transactions[t2].amount <= q
              /\ transactions[t1].amount + transactions[t2].amount > q

\* C3: a purchase of more than the lot's credit_amount inserts no transaction
\* (stated for the purchases whose buyer is not the seller)
C3_NoPurchaseAboveQuantity ==
    \A t \in ArmsLength :
        transactions[t].amount <= credits[transactions[t].credit_id].credit_amount

\* C4: the lots that reference an assessment sum to its carbon estimate
C4_LotsSumToEstimate ==
    \A a \in DOMAIN assessments :
        LotsOf(credits, a) # {} => LotSum(credits, a) = assessments[a].carbon_estimate

\* C5: the completed purchases against the lots of an assessment never sum
\* to more than the quantity of those lots (stated for the purchases whose
\* buyer is not the seller)
C5_SoldWithinIssued ==
    \A a \in DOMAIN assessments :
        LET sold == {t \in ArmsLength :
                        /\ transactions[t].status = "completed"
                        /\ transactions[t].credit_id \in LotsOf(credits, a)}
        IN  SumOver(sold, [t \in DOMAIN transactions |-> transactions[t].amount])
                <= LotSum(credits, a)

\* C6: a step of a buy_credit request either leaves transactions and lots as
\* they are, or is its commit, which shows the transaction row and the sold
\* lot together; a request that ends otherwise shows nothing
C6_PurchaseAtomic ==
    [][\A r \in Slots :
          req[r].op = "buy_credit" /\ req'[r] # req[r] =>
              \/ transactions' = transactions /\ credits' = credits
              \/ /\ req[r].pc = "commit"
                 /\ req'[r] = IdleReq
                 /\ Len(transactions') = Len(transactions) + 1
                 /\ transactions'[Len(transactions')].credit_id = req[r].credit_id
                 /\ transactions'[Len(transactions')].buyer_id = req[r].user_id
                 /\ transactions'[Len(transactions')].amount =
                        DecimalColumn(req[r].amount, req[r].milli)
                 /\ credits'[req[r].credit_id].status = "sold"]_vars

\* a purchase has executed both statements and none is visible yet
C6_Witness ==
    \E r \in Slots :
        /\ req[r].op = "buy_credit"
        /\ req[r].pc = "commit"
        /\ Len(req[r].tx) = 2
        /\ credits[req[r].credit_id].status = "available"
        /\ PurchaseIds = {}

\* C7: no purchase has the owner of the lot's project as its buyer
C7_BuyerIsNotSeller ==
    \A t \in PurchaseIds : transactions[t].buyer_id # transactions[t].seller_id

\* the rows of table t that belong to project p
RowsOf(t, p) == Cardinality({i \in DOMAIN t : t[i].project_id = p})

\* C8: readers never see a project with an observation, an assessment or a
\* verification log that lacks the other two
C8_AssessmentRowsTogether ==
    \A p \in DOMAIN projects :
        /\ RowsOf(satellite_data, p) = RowsOf(assessments, p)
        /\ RowsOf(assessments, p) = RowsOf(logs, p)

\* the answer cannot be parsed into a carbon estimate: the call failed, the
\* text is no JSON, or carbon_estimate is not "<number> tons CO2e/year"
Unparsable(resp) == resp.kind # "json" \/ resp.form # "tons"

\* C9: analyze_project answers the fallback result whenever the call
\* fails or its output cannot be parsed
C9_FallbackOnUnparsable ==
    aiOut.called /\ Unparsable(aiIn.resp) =>
        aiOut.result = FallbackResult(aiIn.project_data, aiIn.tie_up)

StatusRank(status) ==
    CASE status = "registered" -> 0
      [] status = "assessing" -> 1
      [] status = "verified" -> 2
      [] status = "active" -> 3
      [] status = "completed" -> 4

\* C10: no step moves a project's status backwards
C10_StatusNeverMovesBack ==
    [][\A p \in DOMAIN projects :
          StatusRank(projects'[p].status) >= StatusRank(projects[p].status)]_vars

\* slot r commits an issuance in this step: the table has one lot more
IssuanceCommits(r) ==
    /\ req[r].op = "generate_report"
    /\ req[r].pc = "commit"
    /\ Len(credits') = Len(credits) + 1

\* the lot an issuance or a purchase has just added
NewLot == credits'[Len(credits')]

\* C11: generate_report adds a lot only for an assessment whose
\* verification_status is 'approved' before the issuance
C11_IssuesOnlyApproved ==
    [][\A r \in Slots :
          IssuanceCommits(r) =>
              assessments[NewLot.assessment_id].verification_status = "approved"]_vars

\* C12: a committed purchase of exactly the lot's credit_amount sets the lot
\* to 'sold', leaves its credit_amount as it was and adds no lot
C12_FullPurchaseSellsLot ==
    [][\A r \in Slots :
          /\ PurchaseCommits(r)
          /\ req[r].amount = credits[req[r].credit_id].credit_amount
          => /\ credits'[req[r].credit_id].status = "sold"
             /\ credits'[req[r].credit_id].credit_amount =
                    credits[req[r].credit_id].credit_amount
             /\ Len(credits') = Len(credits)]_vars

\* a purchase of exactly the lot's quantity is in the ledger, the lot is
\* sold and no lot has been added
C12_Witness ==
    \E t \in PurchaseIds :
        /\ transactions[t].amount = credits[transactions[t].credit_id].credit_amount
        /\ credits[transactions[t].credit_id].status = "sold"
        /\ Len(credits) = Len(SeedCredits)

\* the statements of kind stmt the open transaction of slot r holds
Executed(r, stmt) == {i \in DOMAIN req[r].tx : req[r].tx[i].stmt = stmt}

\* slot r serves a purchase of part of its lot, 0 < amount < credit_amount,
\* by a buyer who is not the seller, and is past the statements of lines
\* 605-645
PartialPurchaseExecuted(r) ==
    /\ req[r].op = "buy_credit"
    /\ req[r].pc \in {"commit", "return"}
    /\ req[r].row # <<>>
    /\ req[r].user_id # req[r].row[1].seller_id
    /\ 0 < req[r].amount
    /\ req[r].amount < req[r].row[1].credit_amount

\* C13: a purchase of part of a lot that has executed its statements is about
\* to commit exactly one transaction, the lot and one sibling lot of the same
\* project, assessment and price with a certificate id of its own, the two
\* quantities summing to the quantity before the purchase
C13_PartialPurchaseSplits ==
    \A r \in Slots :
        PartialPurchaseExecuted(r) =>
            /\ req[r].pc = "commit"
            /\ Cardinality(Executed(r, "insert_transaction")) = 1
            /\ Cardinality(Executed(r, "insert_credit")) = 1
            /\ Cardinality(Executed(r, "update_credit")) = 1
            /\ \A i \in Executed(r, "update_credit"), j \in Executed(r, "insert_credit") :
                   LET lot == credits[req[r].credit_id]
                       sibling == req[r].tx[j].row
                   IN  /\ req[r].tx[i].id = req[r].credit_id
                       /\ req[r].tx[i].col = "credit_amount"
                       /\ req[r].tx[i].val + sibling.credit_amount =
                              req[r].row[1].credit_amount
                       /\ sibling.project_id = lot.project_id
                       /\ sibling.assessment_id = lot.assessment_id
                       /\ sibling.price_per_credit = lot.price_per_credit
                       /\ sibling.certificate_id # lot.certificate_id

\* the SELECT of lines 586-592 finds no row for credit id cid
NotAvailable(cid) ==
    cid \notin DOMAIN credits \/ credits[cid].status # "available"

\* slot r has answered 'Credit not available for purchase'
Rejected(r) ==
    /\ req[r].op = "buy_credit"
    /\ req[r].pc = "return"
    /\ req[r].flash = "Credit not available for purchase"

\* C14: a buy_credit request for a lot that is not 'available' or does not
\* exist executes no statement and returns its error, and neither its first
\* step nor its return changes a transaction or a lot
C14_UnavailableLotRejected ==
    [][\A r \in Slots :
          /\ Idle(r) /\ req'[r].op = "buy_credit" /\ NotAvailable(req'[r].credit_id)
             => /\ req'[r].pc = "return"
                /\ req'[r].flash = "Credit not available for purchase"
                /\ req'[r].tx = <<>>
                /\ transactions' = transactions
                /\ credits' = credits
          /\ Rejected(r) /\ req'[r] # req[r]
             => /\ req'[r] = IdleReq
                /\ transactions' = transactions
                /\ credits' = credits]_vars

\* a request for a lot that an earlier purchase has sold has been rejected
C14_Witness ==
    \E r \in Slots :
        /\ Rejected(r)
        /\ req[r].credit_id \in DOMAIN credits
        /\ credits[req[r].credit_id].status = "sold"

\* C15: every lot has a credit_amount above 0 and every purchase an amount
\* above 0
C15_QuantitiesPositive ==
    /\ \A c \in DOMAIN credits : credits[c].credit_amount > 0
    /\ \A t \in PurchaseIds : transactions[t].amount > 0

\* C16: a step leaves a project's status as it is or moves it to the status
\* that immediately follows
C16_StatusMovesOneStep ==
    [][\A p \in DOMAIN projects :
          \/ projects'[p].status = projects[p].status
          \/ StatusRank(projects'[p].status) = StatusRank(projects[p].status) + 1]_vars

\* C17: the lot generate_report adds is 'available' and has the
\* carbon_estimate of the assessment its assessment_id references as its
\* credit_amount
C17_LotMatchesAssessment ==
    [][\A r \in Slots :
          IssuanceCommits(r) =>
              /\ NewLot.status = "available"
              /\ NewLot.credit_amount =
                     assessments'[NewLot.assessment_id].carbon_estimate]_vars

\* C18: no row references a row that does not exist: after a DELETE of a
\* user, the user's projects, their assessments, lots, observations and logs
\* and the transactions of those lots and of that user are gone
C18_DeleteCascades ==
    /\ \A p \in DOMAIN projects : projects[p].user_id \in users
    /\ \A a \in DOMAIN assessments : assessments[a].project_id \in DOMAIN projects
    /\ \A c \in DOMAIN credits :
           /\ credits[c].project_id \in DOMAIN projects
           /\ credits[c].assessment_id \in DOMAIN assessments
    /\ \A t \in DOMAIN transactions :
           /\ transactions[t].credit_id \in DOMAIN credits
           /\ transactions[t].buyer_id \in users
           /\ transactions[t].seller_id \in users
    /\ \A i \in DOMAIN satellite_data :
           satellite_data[i].project_id \in DOMAIN projects
    /\ \A i \in DOMAIN logs :
           /\ logs[i].project_id \in DOMAIN projects
           /\ logs[i].assessment_id \in DOMAIN assessments \cup {0}

\* one user has been deleted after an issuance: rows of the other user
\* remain in every table but transactions, which has lost the rows of the
\* deleted user's lots and purchases
C18_Witness ==
    /\ Cardinality(users) = 1
    /\ DOMAIN projects # {}
    /\ DOMAIN assessments # {}
    /\ DOMAIN satellite_data # {}
    /\ DOMAIN logs # {}
    /\ Cardinality(DOMAIN credits) = 2
    /\ DOMAIN transactions = {}

\* the INSERT of generate_report in slot r has met an existing certificate_id
DuplicateCertificate(r) ==
    /\ req[r].op = "generate_report"
    /\ req[r].pc = "return"
    /\ req[r].flash = "IntegrityError 1062"

\* C19: no two lots have the same certificate_id, and an operation whose
\* certificate_id exists already fails and ends without a change to a
\* project, an assessment, a lot or a transaction
C19_CertificatesUnique ==
    /\ [](\A c1, c2 \in DOMAIN credits :
             c1 # c2 => credits[c1].certificate_id # credits[c2].certificate_id)
    /\ [][\A r \in Slots :
             (DuplicateCertificate(r) \/ DuplicateCertificate(r)') /\ req'[r] # req[r]
             => /\ req'[r] = IdleReq \/ DuplicateCertificate(r)'
                /\ projects' = projects
                /\ assessments' = assessments
                /\ credits' = credits
                /\ transactions' = transactions]_vars

\* an issuance has drawn the certificate_id of a lot that an earlier issuance
\* has committed, and has failed
C19_Witness ==
    \E r \in Slots :
        /\ DuplicateCertificate(r)
        /\ \E c \in DOMAIN credits, tok \in Tokens :
               credits[c].certificate_id = <<req[r].project_id, tok>>

\* area_in_acres * annual_rate of a project, in thousandths of a hundredth
\* of a ton: the area in hundredths, times 2.47 for hectares, times the rate
\* of the project type
ExactEstimate(project_data) ==
    LET acres == IF project_data.area_unit = "hectares"
                 THEN project_data.area_size * 247
                 ELSE project_data.area_size * 100
        annual_rate == CASE project_data.project_type = "forestry" -> 35
                         [] project_data.project_type = "agriculture" -> 12
                         [] project_data.project_type = "agroforestry" -> 28
                         [] project_data.project_type = "wetland" -> 48
                         [] OTHER -> 10
    IN  acres * annual_rate

\* estimate_fallback has been called: analyze_project has answered from its
\* except clause
FallbackCalled == aiOut.called /\ aiOut.result.model_version = "fallback"

\* C20: estimate_fallback returns area_in_acres * annual_rate rounded to the
\* nearest hundredth, and 864.5 for 100 hectares of forestry
C20_FallbackEstimate ==
    FallbackCalled =>
        LET estimate == aiOut.result.carbon_estimate
            exact == ExactEstimate(aiIn.project_data)
        IN  /\ 2 * (1000 * estimate - exact) <= 1000
            /\ 2 * (exact - 1000 * estimate) <= 1000
            /\ aiIn.project_data = [project_type |-> "forestry",
                                    area_size |-> 10000,
                                    area_unit |-> "hectares"]
               => estimate = 86450

\* estimate_fallback has answered 864.5 for 100 hectares of forestry
C20_Witness ==
    /\ FallbackCalled
    /\ aiIn.project_data = [project_type |-> "forestry", area_size |-> 10000,
                            area_unit |-> "hectares"]
    /\ aiOut.result.carbon_estimate = 86450

\* the ids register_project can give to the projects it inserts
NewProjectIds == (Len(SeedProjects) + 1) .. (Len(SeedProjects) + MaxRequests)

\* a register_project request for project p is being served
Registering(p) ==
    \E r \in Slots : req[r].op = "register_project" /\ req[r].project_id = p

\* the register_project request for project p is over and has left the
\* project in status 'assessing' with an observation, an assessment and a
\* verification log
Registered(p) ==
    /\ ~Registering(p)
    /\ p \in DOMAIN projects
    /\ projects[p].status = "assessing"
    /\ RowsOf(satellite_data, p) >= 1
    /\ RowsOf(assessments, p) >= 1
    /\ RowsOf(logs, p) >= 1

\* C21: over a ledger store that does not fail, every register_project
\* request completes with its project in status 'assessing' and an
\* observation, an assessment and a verification log of the project
\* committed, whatever the satellite and the AI collaborators do
C21_RegistrationCompletes ==
    \A p \in NewProjectIds : Registering(p) ~> Registered(p)

\* a registration has completed although both collaborators failed: the
\* observation is simulated and the assessment is the fallback
C21_Witness ==
    \E p \in NewProjectIds :
        /\ Registered(p)
        /\ RowsOf(satellite_data, p) = 1
        /\ RowsOf(assessments, p) = 1
        /\ RowsOf(logs, p) = 1
        /\ \E i \in DOMAIN satellite_data :
               /\ satellite_data[i].project_id = p
               /\ satellite_data[i].source = "Simulated data"
        /\ \E a \in DOMAIN assessments :
               /\ assessments[a].project_id = p
               /\ assessments[a].ai_model_version = "fallback"

\* the errors the INSERT INTO carbon_credits of generate_report can raise
IntegrityErrors == {"IntegrityError 1452", "IntegrityError 1062"}

\* slot r serves a generate_report request that has executed the approval of
\* the assessment, the verification of the project and the INSERT of the lot
IssuanceExecuted(r) ==
    /\ Len(req[r].tx) = 3
    /\ req[r].tx[1].stmt = "update_assessment"
    /\ req[r].tx[1].status = "approved"
    /\ req[r].tx[2].stmt = "update_project"
    /\ req[r].tx[2].id = req[r].project_id
    /\ req[r].tx[2].status = "verified"
    /\ req[r].tx[3].stmt = "insert_credit"
    /\ req[r].tx[3].row.project_id = req[r].project_id
    /\ req[r].tx[3].row.credit_amount = req[r].row[1].carbon_estimate

\* C22: once generate_report has called generate_assessment_report, whether
\* the call answers 'generated' or, its AI call having failed, 'error',
\* generate_report executes the approval, the verification and the INSERT
\* of the lot and commits them; the only error it returns is the
\* IntegrityError of its INSERT
C22_IssuanceIgnoresAI ==
    /\ [](\A r \in Slots :
             req[r].op = "generate_report" /\ req[r].result # <<>> =>
                 /\ req[r].result[1].status \in {"generated", "error"}
                 /\ req[r].pc \in {"execute", "commit", "return"}
                 /\ req[r].pc = "return" => req[r].flash \in IntegrityErrors
                 /\ req[r].pc = "commit" => IssuanceExecuted(r))
    /\ [][\A r \in Slots :
             /\ req[r].op = "generate_report"
             /\ req[r].pc = "commit"
             /\ req'[r] = IdleReq
             /\ credits' # credits
             => /\ Len(credits') = Len(credits) + 1
                /\ credits'[Len(credits')] = req[r].tx[3].row
                /\ assessments'[req[r].tx[1].id].verification_status = "approved"
                /\ projects'[req[r].project_id].status = "verified"]_vars

\* a generate_report request whose AI call has failed has executed its
\* statements and is about to commit
C22_Witness ==
    \E r \in Slots :
        /\ req[r].op = "generate_report"
        /\ req[r].pc = "commit"
        /\ req[r].result[1].status = "error"
        /\ IssuanceExecuted(r)

\* slot r, serving a generate_report request that has executed its
\* statements, ends its request
ReportEnds(r) ==
    /\ req[r].op = "generate_report"
    /\ req[r].pc = "commit"
    /\ req'[r] = IdleReq

\* slot r, serving a generate_report request, takes a step before its commit
ReportStepsBeforeCommit(r) ==
    /\ req[r].op = "generate_report"
    /\ req[r].pc # "commit"
    /\ req'[r] # req[r]

\* C23: a project becomes 'verified' only in the step that commits a
\* generate_report request for it, and no project is created 'verified'; a
\* generate_report that commits leaves its project 'verified' with a new lot
\* of that project; a generate_report that ends without its commit, and
\* every step of a generate_report before its commit, leave the projects,
\* the assessments and the lots as they were
C23_VerifiedOnCommit ==
    [][/\ \A p \in DOMAIN projects' :
             projects'[p].status = "verified" =>
                 /\ p \in DOMAIN projects
                 /\ \/ projects[p].status = "verified"
                    \/ \E r \in Slots :
                          /\ ReportEnds(r)
                          /\ req[r].project_id = p
                          /\ credits' # credits
       /\ \A r \in Slots :
             ReportEnds(r) =>
                 \/ /\ projects'[req[r].project_id].status = "verified"
                    /\ Len(credits') = Len(credits) + 1
                    /\ NewLot.project_id = req[r].project_id
                    /\ \A c \in DOMAIN credits : credits'[c] = credits[c]
                 \/ UNCHANGED <<projects, assessments, credits>>
       /\ \A r \in Slots :
             ReportStepsBeforeCommit(r) =>
                 UNCHANGED <<projects, assessments, credits>>]_vars

\* a generate_report request has committed, its project is 'verified' and
\* has a lot that is not of the seed, and another generate_report request
\* has failed before its commit
C23_Witness ==
    /\ \E p \in DOMAIN projects :
          /\ projects[p].status = "verified"
          /\ \E c \in DOMAIN credits :
                /\ c > Len(SeedCredits)
                /\ credits[c].project_id = p
    /\ \E r \in Slots :
          /\ req[r].op = "generate_report"
          /\ req[r].pc = "return"
          /\ req[r].flash \in IntegrityErrors

\* C24: every purchase in the ledger whose buyer is not the seller has
\* status 'completed', references a lot, names the owner of the lot's
\* project as seller, carries the lot's price_per_credit as price_per_unit,
\* and its total_price is its amount times its price_per_unit (the three in
\* hundredths)
C24_TransactionRow ==
    \A t \in ArmsLength :
        LET row == transactions[t]
        IN  /\ row.status = "completed"
            /\ row.credit_id \in DOMAIN credits
            /\ row.seller_id = projects[credits[row.credit_id].project_id].user_id
            /\ row.price_per_unit = credits[row.credit_id].price_per_credit
            /\ row.total_price * 100 = row.amount * row.price_per_unit

\* C25: the assessment a lot references is an assessment of the lot's
\* project, and the assessment a generate_report request sets to 'approved'
\* is the one its SELECT returned, the latest of the requested project
C25_LotAssessmentOfProject ==
    /\ \A c \in DOMAIN credits :
          /\ credits[c].assessment_id \in DOMAIN assessments
          /\ assessments[credits[c].assessment_id].project_id = credits[c].project_id
    /\ \A r \in Slots :
          req[r].op = "generate_report" =>
              \A i \in Executed(r, "update_assessment") :
                  req[r].tx[i].id = req[r].row[1].ca_id

\* user u, or nobody, does not own project pid
NotOwner(u, pid) == u = NoUser \/ projects[pid].user_id # u

\* slot r serves a project_assessment or generate_report request of a session
\* that does not own the requested project
RefusedRequest(r) ==
    /\ req[r].op \in {"project_assessment", "generate_report"}
    /\ NotOwner(req[r].user_id, req[r].project_id)

\* C26: a project_assessment or generate_report request of a session that
\* does not own the project, or of nobody, is answered with a redirect and
\* a flash message, has executed no statement, and from its start to its end
\* leaves projects, observations, assessments, verification logs and lots as
\* they were
C26_OnlyOwnerChangesProject ==
    /\ [](\A r \in Slots :
             RefusedRequest(r) =>
                 /\ req[r].pc = "return"
                 /\ req[r].tx = <<>>
                 /\ req[r].flash \in {"Project not found or unauthorized",
                                      "Please login to view project assessment",
                                      "Please login to generate a report"})
    /\ [][\A r \in Slots :
             \/ /\ req[r].op = "idle"
                /\ req'[r].op \in {"project_assessment", "generate_report"}
                /\ NotOwner(req'[r].user_id, req'[r].project_id)
             \/ /\ RefusedRequest(r)
                /\ req'[r] # req[r]
             => UNCHANGED <<projects, satellite_data, assessments, logs,
                            credits>>]_vars

\* a project_assessment request of nobody and a generate_report request of
\* a user who does not own the project have been answered with their flash
\* messages
C26_Witness ==
    \E r, o \in Slots :
        /\ req[r].op = "project_assessment"
        /\ req[r].user_id = NoUser
        /\ req[r].flash = "Please login to view project assessment"
        /\ req[o].op = "generate_report"
        /\ req[o].user_id \in Users
        /\ projects[req[o].project_id].user_id # req[o].user_id
        /\ req[o].flash = "Project not found or unauthorized"

=============================================================================
